---- MODULE Spec2Model ----
(***************************************************************************)
(* Model of Scripts/add_directors.py: main() and                           *)
(* DirectorDatabaseBuilder.build(), the extraction-join-load pipeline that *)
(* adds the directors and movie_directors tables to the MovieChain store.  *)
(*                                                                         *)
(* One action per stage of build(); the streaming loops (one record of an  *)
(* extract, one row of a loader pass) are one action per iteration, so     *)
(* that a run can be interrupted between any two of them.                  *)
(***************************************************************************)
EXTENDS Integers, Sequences, FiniteSets, TLC

VARIABLES
    \* ---- environment: the inputs of a run ----
    movies,           \* tconst column of the pre-existing movies table
    principals,       \* Extract A (title.principals.tsv), a sequence of records
    names,            \* Extract B (name.basics.tsv), a sequence of records
    present,          \* which of the three input files exist when main() starts
    \* ---- the store (committed state of the SQLite file) and the artifact ----
    exist,            \* derived tables and indexes that exist
    directors,        \* committed rows of directors, in rowid order
    movie_directors,  \* committed rows of movie_directors, in rowid order
    directors_fts,    \* committed rows of the FTS index
    gz,               \* the compressed artifact
    \* ---- the process ----
    pc,               \* position of the process in main()/build()
    exitStatus,       \* exit status of the process, "none" while it runs
    failedAt,         \* the stage that raised, "none" if none did
    existing_movies,  \* build(): existing_movies
    director_movies,  \* build(): director_movies, a dict in insertion order
    director_names,   \* build(): director_names, a dict in insertion order
    needed_nconsts,   \* extract_director_names: needed_nconsts
    rows_processed,   \* rows_processed of the extract loop that is running
    names_found,      \* extract_director_names: names_found
    rows,             \* the rows a loader pass iterates over, in iteration order
    accepted,         \* how many of them the pass has appended to a batch
    batch,            \* the loader's batch (rows appended, not yet committed)
    aborted_before    \* history: an earlier run on this store ended in a failure

envVars   == <<movies, principals, names, present>>
storeVars == <<exist, directors, movie_directors, directors_fts, gz>>
memVars   == <<existing_movies, director_movies, director_names, needed_nconsts,
               rows_processed, names_found, rows, accepted, batch>>
vars      == <<envVars, storeVars, pc, exitStatus, failedAt, memVars, aborted_before>>

----------------------------------------------------------------------------
(* Bounds of the model. *)

\* longest Extract A
MaxA == 3
\* longest Extract B
MaxB == 2
\* longest Extract B of the resolver-only specification
MaxScan == 3
\* rows per committed batch (50_000 in the script, scaled down)
batch_size == 2

----------------------------------------------------------------------------
(* Values. *)

\* Python's None: what csv.DictReader's row.get gives for a field the record lacks
None == "None"
\* the dataset's null sentinel, the two characters \N
Sentinel == "\\N"

\* Python truthiness of a field value: neither None nor the empty string
Truthy(x) == x /= None /\ x /= ""

Range(s) == {s[i] : i \in DOMAIN s}

SeqsUpTo(S, n) == UNION {[1..k -> S] : k \in 0..n}

PRow(t, n, c) == [tconst |-> t, nconst |-> n, category |-> c]
NRow(n, nm)   == [nconst |-> n, primaryName |-> nm]

----------------------------------------------------------------------------
(* Python dicts, kept as sequences of entries in insertion order. *)

DictKeys(d) == {d[i].nconst : i \in DOMAIN d}

HasKey(d, n) == \E i \in DOMAIN d : d[i].nconst = n

\* a list of (tconst, nconst) or (nconst, name) tuples without a repeated element
NoDup(s) == \A i, j \in DOMAIN s : i /= j => s[i] /= s[j]

Column(s, c) == [i \in DOMAIN s |-> s[i][c]]

----------------------------------------------------------------------------
(* extract_director_relationships, one record at a time. *)

\* a repeated record always opens a new entry (a list of pairs, no set)
AddRelationshipNoDedup(dm, n, t) ==
    Append(dm, [nconst |-> n, tconsts |-> {t}])

\* if nconst not in director_movies: director_movies[nconst] = set()
\* director_movies[nconst].add(tconst)
AddRelationship(dm, n, t) ==
    IF HasKey(dm, n)
    THEN [i \in DOMAIN dm |->
            IF dm[i].nconst = n
            THEN [dm[i] EXCEPT !.tconsts = @ \cup {t}]
            ELSE dm[i]]
    ELSE Append(dm, [nconst |-> n, tconsts |-> {t}])

\* the record is skipped without looking at the key set
SkipsRowNoKeySet(row, existing) ==
    \/ row.category /= "director"
    \/ ~Truthy(row.tconst)
    \/ ~Truthy(row.nconst)

\* the two `continue` conditions of the loop body
SkipsRow(row, existing) ==
    \/ row.category /= "director"
    \/ ~Truthy(row.tconst)
    \/ ~Truthy(row.nconst)
    \/ row.tconst \notin existing

\* the loop body: director_movies after the record `row`
ProcessPrincipal(dm, row, existing) ==
    IF SkipsRow(row, existing)
    THEN dm
    ELSE AddRelationship(dm, row.nconst, row.tconst)

----------------------------------------------------------------------------
(* extract_director_names, one record at a time. *)

\* the sentinel is taken for a name
ValidNameNoSentinel(name) == Truthy(name)

\* if name and name != '\\N'
ValidName(name) == Truthy(name) /\ name /= Sentinel

\* director_names[nconst] = name: a new key goes last, a known key keeps its place
SetName(dn, n, name) ==
    IF HasKey(dn, n)
    THEN [i \in DOMAIN dn |->
            IF dn[i].nconst = n THEN [dn[i] EXCEPT !.name = name] ELSE dn[i]]
    ELSE Append(dn, [nconst |-> n, name |-> name])

\* the loop body on a record: the dict, the counter, and whether the loop breaks
NameStep(dn, found, needed, row) ==
    IF row.nconst \notin needed
    THEN [names |-> dn, found |-> found, stop |-> FALSE]
    ELSE LET valid == ValidName(row.primaryName)
             dn2   == IF valid THEN SetName(dn, row.nconst, row.primaryName) ELSE dn
             f2    == IF valid THEN found + 1 ELSE found
         IN  [names |-> dn2, found |-> f2, stop |-> (f2 = Cardinality(needed))]

----------------------------------------------------------------------------
(* build(), step 6, and the rows the two loader passes iterate over. *)

\* every director is kept, named or not
FilterKeepAll(dm, dn) == dm

\* {nconst: movies for nconst, movies in director_movies.items()
\*  if nconst in director_names}
FilterNamed(dm, dn) == SelectSeq(dm, LAMBDA e : HasKey(dn, e.nconst))

\* director_names.items()
DirectorRows(dn) == [i \in DOMAIN dn |-> <<dn[i].nconst, dn[i].name>>]

\* the orders in which a Python set can be iterated
SetOrders(S) == {s \in [1..Cardinality(S) -> S] : Range(s) = S}

\* the (tconst, nconst) tuples of the nested loop of insert_movie_directors:
\* the dict in insertion order, each set in any order
RECURSIVE LinkOrders(_)
LinkOrders(dm) ==
    IF dm = <<>>
    THEN {<<>>}
    ELSE {[i \in DOMAIN o |-> <<o[i], Head(dm).nconst>>] \o rest :
            o \in SetOrders(Head(dm).tconsts), rest \in LinkOrders(Tail(dm))}

\* the batch is flushed only when it has grown past the batch size
BatchFullLate(b) == Len(b) > batch_size

\* if len(batch) >= batch_size
BatchFull(b) == Len(b) >= batch_size

----------------------------------------------------------------------------
(* The store. *)

Indexes == {"idx_movie_directors_tconst", "idx_movie_directors_nconst"}

NoArtifact      == [state |-> "none", directors |-> <<>>, movie_directors |-> <<>>]
PartialArtifact == [state |-> "partial", directors |-> <<>>, movie_directors |-> <<>>]

\* the directors table is not among the tables dropped
DropListKeepsDirectors == <<"directors_fts", "movie_directors", "movie_directors">>

\* the three DROP TABLE IF EXISTS statements, in the order they are executed
DropList == <<"directors_fts", "movie_directors", "directors">>

\* what a DROP TABLE removes: the table and, with movie_directors, its indexes
Dropped(t) == IF t = "movie_directors" THEN {t} \cup Indexes ELSE {t}

\* INSERT INTO directors: nconst is the primary key
CanInsertDirectors(b) ==
    /\ "directors" \in exist
    /\ NoDup(Column(directors \o b, 1))

\* INSERT INTO movie_directors: (tconst, nconst) is the primary key
CanInsertLinks(b) ==
    /\ "movie_directors" \in exist
    /\ NoDup(movie_directors \o b)

\* The statement that the stage at pc executes is refused by the store, which
\* raises sqlite3.OperationalError (the table or index exists already, or does
\* not exist) or sqlite3.IntegrityError (a primary key is repeated).
StorageRefuses ==
    CASE pc = "create_directors" -> "directors" \in exist
      [] pc = "create_movie_directors" -> "movie_directors" \in exist
      [] pc = "flush_directors" -> ~CanInsertDirectors(batch)
      [] pc = "insert_directors" ->
            accepted = Len(rows) /\ batch /= <<>> /\ ~CanInsertDirectors(batch)
      [] pc = "flush_links" -> ~CanInsertLinks(batch)
      [] pc = "insert_links" ->
            accepted = Len(rows) /\ batch /= <<>> /\ ~CanInsertLinks(batch)
      [] pc = "create_fts" -> "directors_fts" \in exist
      [] pc = "populate_fts" -> ~({"directors", "directors_fts"} \subseteq exist)
      [] pc = "index_tconst" ->
            "idx_movie_directors_tconst" \in exist \/ "movie_directors" \notin exist
      [] pc = "index_nconst" ->
            "idx_movie_directors_nconst" \in exist \/ "movie_directors" \notin exist
      [] OTHER -> FALSE

----------------------------------------------------------------------------
(* main(): the checks of the three input files. *)

Presence == [db : BOOLEAN, principals : BOOLEAN, names : BOOLEAN]

\* the check of name.basics.tsv is left out
InputsPresentNoNames(p) == p.db /\ p.principals

\* none of the three `if not ....exists()` branches is taken
InputsPresent(p) == p.db /\ p.principals /\ p.names

\* the process dies with status 0
FailureStatusZero == "0"

\* sys.exit(1)
FailureStatus == "1"

\* the stages of build(), from connect() to compress_database()
BuildStages ==
    {"connect", "drop_fts", "drop_movie_directors", "drop_directors",
     "create_directors", "create_movie_directors", "get_movie_ids",
     "extract_relationships", "extract_names", "filter",
     "insert_directors", "flush_directors", "insert_links", "flush_links",
     "create_fts", "populate_fts", "index_tconst", "index_nconst",
     "vacuum", "disconnect", "compress"}

FreshMemory ==
    /\ existing_movies = {}
    /\ director_movies = <<>>
    /\ director_names = <<>>
    /\ needed_nconsts = {}
    /\ rows_processed = 0
    /\ names_found = 0
    /\ rows = <<>>
    /\ accepted = 0
    /\ batch = <<>>

\* a store that holds only the movies table; the process is about to run main()
InitWith(movieTables, aRecords, bRecords, filesFound) ==
    /\ movies \in movieTables
    /\ principals \in SeqsUpTo(aRecords, MaxA)
    /\ names \in SeqsUpTo(bRecords, MaxB)
    /\ present \in filesFound
    /\ exist = {}
    /\ directors = <<>>
    /\ movie_directors = <<>>
    /\ directors_fts = <<>>
    /\ gz = NoArtifact
    /\ pc = "main"
    /\ exitStatus = "none"
    /\ failedAt = "none"
    /\ FreshMemory
    /\ aborted_before = FALSE

----------------------------------------------------------------------------
(* build(): the exception handler. *)

\* except Exception: ... sys.exit(1); finally: disconnect().  The stage at pc
\* raised: nothing it had not committed reaches the store, no later stage runs.
Raise ==
    /\ pc' = "failed"
    /\ failedAt' = pc
    /\ exitStatus' = FailureStatus
    /\ UNCHANGED <<envVars, exist, directors, movie_directors, directors_fts,
                   memVars, aborted_before>>

Goto(stage) ==
    /\ pc' = stage
    /\ UNCHANGED <<exitStatus, failedAt, aborted_before>>

----------------------------------------------------------------------------
(* main() *)

MainCheck ==
    /\ pc = "main"
    /\ IF InputsPresent(present)
       THEN /\ pc' = "connect"
            /\ UNCHANGED exitStatus
       ELSE /\ pc' = "exited"
            /\ exitStatus' = FailureStatus
    /\ UNCHANGED <<envVars, storeVars, failedAt, memVars, aborted_before>>

----------------------------------------------------------------------------
(* connect, drop_existing_tables, create_tables, get_existing_movie_ids *)

Connect ==
    /\ pc = "connect"
    /\ Goto("drop_fts")
    /\ UNCHANGED <<envVars, storeVars, memVars>>

\* DROP TABLE IF EXISTS t
DropTable(t) ==
    /\ exist' = exist \ Dropped(t)
    /\ directors' = IF t = "directors" THEN <<>> ELSE directors
    /\ movie_directors' = IF t = "movie_directors" THEN <<>> ELSE movie_directors
    /\ directors_fts' = IF t = "directors_fts" THEN <<>> ELSE directors_fts
    /\ UNCHANGED <<envVars, gz, memVars>>

DropFirst ==
    /\ pc = "drop_fts"
    /\ DropTable(DropList[1])
    /\ Goto("drop_movie_directors")

DropSecond ==
    /\ pc = "drop_movie_directors"
    /\ DropTable(DropList[2])
    /\ Goto("drop_directors")

DropThird ==
    /\ pc = "drop_directors"
    /\ DropTable(DropList[3])
    /\ Goto("create_directors")

\* CREATE TABLE t (no IF NOT EXISTS): an error if t exists
CreateTable(t, next) ==
    IF StorageRefuses
    THEN Raise /\ UNCHANGED gz
    ELSE /\ exist' = exist \cup {t}
         /\ Goto(next)
         /\ UNCHANGED <<envVars, directors, movie_directors, directors_fts, gz,
                        memVars>>

CreateDirectors ==
    /\ pc = "create_directors"
    /\ CreateTable("directors", "create_movie_directors")

CreateMovieDirectors ==
    /\ pc = "create_movie_directors"
    /\ CreateTable("movie_directors", "get_movie_ids")

GetExistingMovieIds ==
    /\ pc = "get_movie_ids"
    /\ existing_movies' = movies
    /\ director_movies' = <<>>
    /\ rows_processed' = 0
    /\ Goto("extract_relationships")
    /\ UNCHANGED <<envVars, storeVars, director_names, needed_nconsts,
                   names_found, rows, accepted, batch>>

----------------------------------------------------------------------------
(* extract_director_relationships, extract_director_names, the filter *)

ReadPrincipal ==
    /\ pc = "extract_relationships"
    /\ rows_processed < Len(principals)
    /\ rows_processed' = rows_processed + 1
    /\ director_movies' =
          ProcessPrincipal(director_movies, principals[rows_processed + 1],
                           existing_movies)
    /\ Goto("extract_relationships")
    /\ UNCHANGED <<envVars, storeVars, existing_movies, director_names,
                   needed_nconsts, names_found, rows, accepted, batch>>

\* the extract is exhausted: return, and enter extract_director_names
PrincipalsExhausted ==
    /\ pc = "extract_relationships"
    /\ rows_processed = Len(principals)
    /\ needed_nconsts' = DictKeys(director_movies)
    /\ director_names' = <<>>
    /\ rows_processed' = 0
    /\ names_found' = 0
    /\ Goto("extract_names")
    /\ UNCHANGED <<envVars, storeVars, existing_movies, director_movies,
                   rows, accepted, batch>>

ReadName ==
    /\ pc = "extract_names"
    /\ rows_processed < Len(names)
    /\ LET r == NameStep(director_names, names_found, needed_nconsts,
                         names[rows_processed + 1])
       IN  /\ director_names' = r.names
           /\ names_found' = r.found
           /\ Goto(IF r.stop THEN "filter" ELSE "extract_names")
    /\ rows_processed' = rows_processed + 1
    /\ UNCHANGED <<envVars, storeVars, existing_movies, director_movies,
                   needed_nconsts, rows, accepted, batch>>

NamesExhausted ==
    /\ pc = "extract_names"
    /\ rows_processed = Len(names)
    /\ Goto("filter")
    /\ UNCHANGED <<envVars, storeVars, memVars>>

\* build(), step 6, and the entry of insert_directors
Filter ==
    /\ pc = "filter"
    /\ director_movies' = FilterNamed(director_movies, director_names)
    /\ rows' = DirectorRows(director_names)
    /\ accepted' = 0
    /\ batch' = <<>>
    /\ Goto("insert_directors")
    /\ UNCHANGED <<envVars, storeVars, existing_movies, director_names,
                   needed_nconsts, rows_processed, names_found>>

----------------------------------------------------------------------------
(* insert_directors and insert_movie_directors *)

\* one iteration of the for loop: batch.append(row), then the test of the batch
Accept(loop, flush) ==
    /\ pc = loop
    /\ accepted < Len(rows)
    /\ batch' = Append(batch, rows[accepted + 1])
    /\ accepted' = accepted + 1
    /\ Goto(IF BatchFull(batch') THEN flush ELSE loop)
    /\ UNCHANGED <<envVars, storeVars, existing_movies, director_movies,
                   director_names, needed_nconsts, rows_processed, names_found,
                   rows>>

AcceptDirector == Accept("insert_directors", "flush_directors")

AcceptLink == Accept("insert_links", "flush_links")

\* executemany + commit of a full batch of directors, then batch = []
FlushDirectors ==
    /\ pc = "flush_directors"
    /\ IF ~StorageRefuses
       THEN /\ directors' = directors \o batch
            /\ batch' = <<>>
            /\ Goto("insert_directors")
            /\ UNCHANGED <<envVars, exist, movie_directors, directors_fts, gz,
                           existing_movies, director_movies, director_names,
                           needed_nconsts, rows_processed, names_found, rows,
                           accepted>>
       ELSE Raise /\ UNCHANGED gz

\* the loop is over: the remaining rows are inserted and committed, the
\* function returns and insert_movie_directors starts on its rows
FinishDirectors ==
    /\ pc = "insert_directors"
    /\ accepted = Len(rows)
    /\ IF ~StorageRefuses
       THEN /\ directors' = directors \o batch
            /\ rows' \in LinkOrders(director_movies)
            /\ accepted' = 0
            /\ batch' = <<>>
            /\ Goto("insert_links")
            /\ UNCHANGED <<envVars, exist, movie_directors, directors_fts, gz,
                           existing_movies, director_movies, director_names,
                           needed_nconsts, rows_processed, names_found>>
       ELSE Raise /\ UNCHANGED gz

\* executemany + commit of a full batch of links, then batch = []
FlushLinks ==
    /\ pc = "flush_links"
    /\ IF ~StorageRefuses
       THEN /\ movie_directors' = movie_directors \o batch
            /\ batch' = <<>>
            /\ Goto("insert_links")
            /\ UNCHANGED <<envVars, exist, directors, directors_fts, gz,
                           existing_movies, director_movies, director_names,
                           needed_nconsts, rows_processed, names_found, rows,
                           accepted>>
       ELSE Raise /\ UNCHANGED gz

FinishLinks ==
    /\ pc = "insert_links"
    /\ accepted = Len(rows)
    /\ IF ~StorageRefuses
       THEN /\ movie_directors' = movie_directors \o batch
            /\ batch' = <<>>
            /\ Goto("create_fts")
            /\ UNCHANGED <<envVars, exist, directors, directors_fts, gz,
                           existing_movies, director_movies, director_names,
                           needed_nconsts, rows_processed, names_found, rows,
                           accepted>>
       ELSE Raise /\ UNCHANGED gz

----------------------------------------------------------------------------
(* create_fts_index, create_indexes, vacuum, disconnect, compress_database *)

\* CREATE VIRTUAL TABLE directors_fts
CreateFts ==
    /\ pc = "create_fts"
    /\ CreateTable("directors_fts", "populate_fts")

\* INSERT INTO directors_fts (rowid, name) SELECT rowid, name FROM directors
PopulateFts ==
    /\ pc = "populate_fts"
    /\ IF ~StorageRefuses
       THEN /\ directors_fts' = Column(directors, 2)
            /\ Goto("index_tconst")
            /\ UNCHANGED <<envVars, exist, directors, movie_directors, gz, memVars>>
       ELSE Raise /\ UNCHANGED gz

\* CREATE INDEX i ON movie_directors(...)
CreateIndex(i, next) ==
    IF StorageRefuses
    THEN Raise /\ UNCHANGED gz
    ELSE /\ exist' = exist \cup {i}
         /\ Goto(next)
         /\ UNCHANGED <<envVars, directors, movie_directors, directors_fts, gz,
                        memVars>>

IndexTconst ==
    /\ pc = "index_tconst"
    /\ CreateIndex("idx_movie_directors_tconst", "index_nconst")

IndexNconst ==
    /\ pc = "index_nconst"
    /\ CreateIndex("idx_movie_directors_nconst", "vacuum")

\* VACUUM rewrites the file; the tables and their rows are what they were
Vacuum ==
    /\ pc = "vacuum"
    /\ Goto("disconnect")
    /\ UNCHANGED <<envVars, storeVars, memVars>>

\* print_stats (reads only) and disconnect
Disconnect ==
    /\ pc = "disconnect"
    /\ Goto("compress")
    /\ UNCHANGED <<envVars, storeVars, memVars>>

\* compress_database; build() and main() return, the process ends with status 0
Compress ==
    /\ pc = "compress"
    /\ gz' = [state |-> "complete", directors |-> directors,
              movie_directors |-> movie_directors]
    /\ pc' = "done"
    /\ exitStatus' = "0"
    /\ UNCHANGED <<envVars, exist, directors, movie_directors, directors_fts,
                   failedAt, memVars, aborted_before>>

----------------------------------------------------------------------------
(* The environment. *)

\* The stage at pc raises (an I/O error on an extract or on the artifact, an
\* undecodable record, a storage error) or the process is killed.  An artifact
\* being written when that happens is left truncated.
Fail ==
    /\ pc \in BuildStages
    /\ Raise
    /\ gz' \in (IF pc = "compress" THEN {gz, PartialArtifact} ELSE {gz})

\* the script is run again on the same store and the same extracts, some of
\* the files `found` say
Restart(found) ==
    /\ pc \in {"exited", "failed", "done"}
    /\ pc' = "main"
    /\ present' \in found
    /\ exitStatus' = "none"
    /\ failedAt' = "none"
    /\ aborted_before' = (aborted_before \/ pc = "failed")
    /\ existing_movies' = {}
    /\ director_movies' = <<>>
    /\ director_names' = <<>>
    /\ needed_nconsts' = {}
    /\ rows_processed' = 0
    /\ names_found' = 0
    /\ rows' = <<>>
    /\ accepted' = 0
    /\ batch' = <<>>
    /\ UNCHANGED <<movies, principals, names, storeVars>>

AllPresent == [db |-> TRUE, principals |-> TRUE, names |-> TRUE]

\* a rerun with the three input files in place
Rerun == Restart({AllPresent})

\* a rerun after any of the input files may have been moved away
RerunAnyInputs == Restart(Presence)

----------------------------------------------------------------------------
(* The stages of build() as functions of the inputs. *)

\* extract_director_relationships: director_movies after the records of A
RECURSIVE Relationships(_, _, _)
Relationships(dm, A, existing) ==
    IF A = <<>>
    THEN dm
    ELSE Relationships(ProcessPrincipal(dm, Head(A), existing), Tail(A), existing)

\* extract_director_names: director_names after the records of B, the loop
\* left at the break (earlyExit) or run to the end of B (no earlyExit)
RECURSIVE ScanNames(_, _, _, _, _)
ScanNames(dn, found, needed, B, earlyExit) ==
    IF B = <<>>
    THEN dn
    ELSE LET r == NameStep(dn, found, needed, Head(B))
         IN  IF earlyExit /\ r.stop
             THEN r.names
             ELSE ScanNames(r.names, r.found, needed, Tail(B), earlyExit)

\* build(), steps 3 to 8, on a store whose derived tables are new and empty:
\* the rows of the two tables, as sets
BuildResult ==
    LET dm0 == Relationships(<<>>, principals, movies)
        dn  == ScanNames(<<>>, 0, DictKeys(dm0), names, TRUE)
        dm  == FilterNamed(dm0, dn)
    IN  [directors |-> Range(DirectorRows(dn)),
         movie_directors |->
            UNION {{<<t, dm[i].nconst>> : t \in dm[i].tconsts} : i \in DOMAIN dm}]

----------------------------------------------------------------------------
(* Specifications. *)

RunStep ==
    \/ MainCheck
    \/ Connect
    \/ DropFirst
    \/ DropSecond
    \/ DropThird
    \/ CreateDirectors
    \/ CreateMovieDirectors
    \/ GetExistingMovieIds
    \/ ReadPrincipal
    \/ PrincipalsExhausted
    \/ ReadName
    \/ NamesExhausted
    \/ Filter
    \/ AcceptDirector
    \/ FlushDirectors
    \/ FinishDirectors
    \/ AcceptLink
    \/ FlushLinks
    \/ FinishLinks
    \/ CreateFts
    \/ PopulateFts
    \/ IndexTconst
    \/ IndexNconst
    \/ Vacuum
    \/ Disconnect
    \/ Compress

\* Records of Extract A for the runs with failures and reruns: two directors,
\* three links, and a short record that lacks nconst and category.
LifeA ==
    {PRow("t1", "n1", "director"), PRow("t2", "n1", "director"),
     PRow("t2", "n2", "director"), PRow("t1", None, None)}

\* Records of Extract B for the same runs: two names, and a short record that
\* lacks primaryName.
LifeB == {NRow("n1", "Alice"), NRow("n2", "Bob"), NRow("n2", None)}

Init == InitWith({{"t1", "t2"}}, LifeA, LifeB, {AllPresent})

Next == RunStep \/ Fail \/ Rerun

\* runs of main() on one store, any of them failing at any stage
Spec == Init /\ [][Next]_vars

\* Records of Extract A for the join: the right and the wrong role, a movie
\* that may be outside the key set, an empty key.
JoinA ==
    {PRow("t1", "n1", "director"), PRow("t1", "n1", "actor"),
     PRow("t2", "n2", "director"), PRow("t2", "n1", "director"),
     PRow("t1", "", "director")}

JoinB ==
    {NRow("n1", "Alice"), NRow("n2", Sentinel), NRow("n2", "Bob"),
     NRow("n1", None)}

InitJoin == InitWith({{"t1", "t2"}, {"t1"}}, JoinA, JoinB, {AllPresent})

\* one run of main() in which no stage meets an I/O or storage failure
SpecJoin == InitJoin /\ [][RunStep]_vars

InitInputs == InitWith({{"t1", "t2"}}, LifeA, LifeB, Presence)

NextInputs == RunStep \/ RerunAnyInputs

\* runs of main() on one store, each finding any of the input files missing
SpecInputs == InitInputs /\ [][NextInputs]_vars

\* Records of Extract B for the resolver: names, a second record of a person,
\* the sentinel, a missing name, a person nobody needs.
ScanB ==
    {NRow("n1", "Alice"), NRow("n1", "Alma"), NRow("n2", "Bob"),
     NRow("n2", Sentinel), NRow("n2", None), NRow("n3", "Carol")}

\* extract_director_names is entered with any set of needed keys
InitResolver ==
    /\ movies = {"t1", "t2"}
    /\ principals = <<>>
    /\ names \in SeqsUpTo(ScanB, MaxScan)
    /\ present = AllPresent
    /\ exist = {"directors", "movie_directors"}
    /\ directors = <<>>
    /\ movie_directors = <<>>
    /\ directors_fts = <<>>
    /\ gz = NoArtifact
    /\ pc = "extract_names"
    /\ exitStatus = "none"
    /\ failedAt = "none"
    /\ existing_movies = movies
    /\ director_movies = <<>>
    /\ director_names = <<>>
    /\ needed_nconsts \in SUBSET {"n1", "n2"}
    /\ rows_processed = 0
    /\ names_found = 0
    /\ rows = <<>>
    /\ accepted = 0
    /\ batch = <<>>
    /\ aborted_before = FALSE

NextResolver == ReadName \/ NamesExhausted

SpecResolver == InitResolver /\ [][NextResolver]_vars

----------------------------------------------------------------------------
(* Properties. *)

\* the stage the process is in, or was in when it failed
Stage == IF pc = "failed" THEN failedAt ELSE pc

\* C1: referential integrity of the store, in every state of every run,
\* interrupted or not: each row (tconst, nconst) of movie_directors has a row
\* of directors with the same nconst.
C1_ReferentialIntegrity ==
    \A i \in DOMAIN movie_directors :
        \E j \in DOMAIN directors : directors[j][1] = movie_directors[i][2]

\* a run interrupted with links committed, one of whose directors was dropped
\* by the name filter
C1_Witness ==
    /\ pc = "failed"
    /\ movie_directors /= <<>>
    /\ needed_nconsts \ DictKeys(director_names) /= {}

\* C2: every row of movie_directors has a tconst of the key set that
\* get_existing_movie_ids returned before the extraction began, and so has
\* every row a loader pass is about to write.
C2_LinkMoviesInKeySet ==
    /\ \A i \in DOMAIN movie_directors : movie_directors[i][1] \in existing_movies
    /\ Stage \in {"insert_links", "flush_links"} =>
          \A i \in DOMAIN rows : rows[i][1] \in existing_movies

\* a completed run that wrote links although Extract A held a director record,
\* of a person with a name, whose movie is outside the key set
C2_Witness ==
    /\ pc = "done"
    /\ movie_directors /= <<>>
    /\ \E i \in DOMAIN principals :
          /\ principals[i].category = "director"
          /\ principals[i].tconst \notin {None, ""}
          /\ principals[i].tconst \notin existing_movies
          /\ HasKey(director_names, principals[i].nconst)

\* C3: no pair (tconst, nconst) is inserted twice: the rows of
\* insert_movie_directors hold no pair twice, movie_directors holds no pair
\* twice, and no INSERT of the pass is refused for the primary key.
C3_NoDuplicateLinks ==
    /\ NoDup(movie_directors)
    /\ Stage \in {"insert_links", "flush_links"} => NoDup(rows)
    /\ pc \in {"insert_links", "flush_links"} => ~StorageRefuses
    /\ failedAt \notin {"insert_links", "flush_links"}

\* a completed run whose Extract A repeats a director record that became a link
C3_Witness ==
    /\ pc = "done"
    /\ \E i, j \in DOMAIN principals :
          /\ i /= j
          /\ principals[i] = principals[j]
          /\ \E k \in DOMAIN movie_directors :
                movie_directors[k] = <<principals[i].tconst, principals[i].nconst>>

\* Extract B holds at most one record per person identifier
UniquePersons ==
    \A i, j \in DOMAIN names : i /= j => names[i].nconst /= names[j].nconst

\* Extract B gives n a name that is there, not empty and not the sentinel
NamedIn(n, nm) ==
    \E j \in DOMAIN names :
        /\ names[j].nconst = n
        /\ names[j].primaryName = nm
        /\ nm \notin {None, "", Sentinel}

\* the reference join of Extract A, the key set and Extract B
JoinLinks ==
    {<<principals[i].tconst, principals[i].nconst>> :
        i \in {k \in DOMAIN principals :
                 /\ principals[k].category = "director"
                 /\ principals[k].tconst \notin {None, ""}
                 /\ principals[k].nconst \notin {None, ""}
                 /\ principals[k].tconst \in movies
                 /\ \E nm \in {names[j].primaryName : j \in DOMAIN names} :
                       NamedIn(principals[k].nconst, nm)}}

JoinDirectors ==
    {<<n, nm>> \in {l[2] : l \in JoinLinks}
                     \X {names[j].primaryName : j \in DOMAIN names} :
        NamedIn(n, nm)}

\* C4: after a completed run on an Extract B with at most one record per
\* person, movie_directors is the reference join and directors holds the
\* named persons of its links, each with the name Extract B gives.
C4_ReferenceJoin ==
    (pc = "done" /\ UniquePersons) =>
        /\ Range(movie_directors) = JoinLinks
        /\ Range(directors) = JoinDirectors

\* the example of the specification
C4_Witness ==
    /\ pc = "done"
    /\ movies = {"t1", "t2"}
    /\ principals = <<PRow("t1", "n1", "director"), PRow("t1", "n1", "actor"),
                      PRow("t2", "n2", "director")>>
    /\ names = <<NRow("n1", "Alice"), NRow("n2", Sentinel)>>
    /\ directors = <<<<"n1", "Alice">>>>
    /\ movie_directors = <<<<"t1", "n1">>>>

\* the needed persons to whom the first i records of Extract B give a name
\* that is there, not empty and not the sentinel
Resolved(i) ==
    {names[j].nconst : j \in {k \in 1..i :
         /\ names[k].nconst \in needed_nconsts
         /\ names[k].primaryName \notin {None, "", Sentinel}}}

\* the record at which the scan of Extract B has to stop: the record at which
\* the number of distinct needed persons resolved reaches the number needed,
\* the last record if there is none
StopPoint ==
    LET k      == Cardinality(needed_nconsts)
        enough == {i \in 1..Len(names) :
                     /\ Cardinality(Resolved(i)) = k
                     /\ Cardinality(Resolved(i - 1)) < k}
    IN  IF enough = {}
        THEN Len(names)
        ELSE CHOOSE i \in enough : \A j \in enough : i <= j

\* C5: extract_director_names returns having read Extract B exactly up to the
\* record at which the k-th distinct needed person is resolved, and all of
\* Extract B if there is no such record.
C5_StopsAtKDistinct ==
    pc = "filter" => rows_processed = StopPoint

\* a dict as the set of its (key, name) pairs
Mapping(dn) == {<<dn[i].nconst, dn[i].name>> : i \in DOMAIN dn}

\* C9: the mapping extract_director_names returns is the mapping the same loop
\* gives when it never breaks and reads Extract B to its end.
C9_EarlyExitPreservesResult ==
    pc = "filter" =>
        Mapping(director_names) =
            Mapping(ScanNames(<<>>, 0, needed_nconsts, names, FALSE))

\* C6: a run that completes after any earlier runs on the same inputs,
\* completed or interrupted, is refused no statement by the store and leaves
\* the row sets of a run on a store without derived tables.
C6_RerunGivesSameRows ==
    /\ ~StorageRefuses
    /\ pc = "done" =>
          /\ Range(directors) = BuildResult.directors
          /\ Range(movie_directors) = BuildResult.movie_directors

\* a run completed with rows in both tables after an earlier run had failed
C6_Witness ==
    /\ pc = "done"
    /\ aborted_before
    /\ directors /= <<>>
    /\ movie_directors /= <<>>

\* a record of Extract A that lacks the role or a key field
LacksFieldsA(r) == r.category = None \/ r.tconst = None \/ r.nconst = None

\* a record of Extract B that lacks the key or the name field
LacksFieldsB(r) == r.nconst = None \/ r.primaryName = None

\* the stages of build() after extract_director_relationships has returned
AfterExtractA ==
    (BuildStages \cup {"done"}) \
        {"connect", "drop_fts", "drop_movie_directors", "drop_directors",
         "create_directors", "create_movie_directors", "get_movie_ids",
         "extract_relationships"}

\* the stages of build() after extract_director_names has returned
AfterExtractB == AfterExtractA \ {"extract_names"}

\* C7 as claimed: a run that met a record lacking the role, key or name fields
\* executes no later stage.
C7_MalformedRecordAborts ==
    /\ pc \in AfterExtractA =>
          \A i \in DOMAIN principals : ~LacksFieldsA(principals[i])
    /\ pc \in AfterExtractB =>
          \A i \in 1..rows_processed : ~LacksFieldsB(names[i])

tables == <<exist, directors, movie_directors, directors_fts>>

\* C7 as amended: a stage that raises ends the run with status 1, what was
\* committed stays as it is and nothing but a new run follows; a record that
\* lacks fields raises nothing, it is skipped and the loop goes on.
C7_FailureAbortsRun ==
    [][/\ (pc /= "failed" /\ pc' = "failed") =>
              /\ exitStatus' = "1"
              /\ failedAt' = pc
              /\ tables' = tables
       /\ pc = "failed" => (pc' = "main" /\ tables' = tables)
       /\ (/\ pc = "extract_relationships"
           /\ rows_processed' = rows_processed + 1
           /\ LacksFieldsA(principals[rows_processed'])) =>
              (pc' = pc /\ director_movies' = director_movies)
       /\ (/\ pc = "extract_names"
           /\ rows_processed' = rows_processed + 1
           /\ LacksFieldsB(names[rows_processed'])) =>
              (pc' = pc /\ director_names' = director_names)
      ]_vars

\* a run that read a record lacking fields, went on, committed its directors
\* and failed in insert_movie_directors before all its links were committed
C7_Witness ==
    /\ pc = "failed"
    /\ exitStatus = "1"
    /\ failedAt = "insert_links"
    /\ directors /= <<>>
    /\ Len(movie_directors) < Len(rows)
    /\ \E i \in DOMAIN principals : LacksFieldsA(principals[i])

\* C8: when one of the three input files is missing as main() starts, the
\* process ends with status 1 before build() is called, the store and the
\* artifact as they were.
C8_MissingInputStops ==
    /\ [](~(present.db /\ present.principals /\ present.names) =>
             pc \in {"main", "exited"})
    /\ [][/\ (pc = "main" /\ ~(present.db /\ present.principals /\ present.names)) =>
                 /\ pc' = "exited"
                 /\ exitStatus' = "1"
                 /\ storeVars' = storeVars
          /\ pc = "exited" => storeVars' = storeVars
         ]_vars

\* Extract B is missing on a store that an earlier run filled and compressed
C8_Witness ==
    /\ pc = "exited"
    /\ ~present.names
    /\ present.db /\ present.principals
    /\ directors /= <<>>
    /\ movie_directors /= <<>>
    /\ gz.state = "complete"

\* the table holds the rows of the first j full batches of rs, for some j
IsBatchPrefix(table, rs) ==
    \E j \in 0..Len(rs) :
        /\ j * batch_size <= Len(rs)
        /\ table = SubSeq(rs, 1, j * batch_size)

\* the stages of build() after insert_movie_directors has returned
AfterLoad ==
    {"create_fts", "populate_fts", "index_tconst", "index_nconst", "vacuum",
     "disconnect", "compress", "done"}

\* C10: a batch never holds more rows than the batch size and is committed
\* before the next row is accepted; at any point of a pass, also one at which
\* the run fails, the committed rows of the pass are its first j*batch_size
\* rows, and all its rows once the pass has returned.
C10_BatchesCommitInOrder ==
    /\ Len(batch) <= batch_size
    /\ pc \in {"insert_directors", "insert_links"} => Len(batch) < batch_size
    /\ Stage \in {"insert_directors", "flush_directors"} =>
          IsBatchPrefix(directors, rows)
    /\ Stage \in {"insert_links", "flush_links"} =>
          /\ directors = DirectorRows(director_names)
          /\ IsBatchPrefix(movie_directors, rows)
    /\ Stage \in AfterLoad =>
          /\ directors = DirectorRows(director_names)
          /\ movie_directors = rows

\* a run that failed in insert_movie_directors with one full batch committed
\* and a further row accepted
C10_Witness ==
    /\ pc = "failed"
    /\ failedAt = "insert_links"
    /\ Len(movie_directors) = batch_size
    /\ batch /= <<>>
    /\ Len(rows) > batch_size

====
